---------------------------- MODULE Spec2Model ----------------------------
(***************************************************************************)
(* Two-phase simplex solver of src/simplex.py (simplex, pivot,             *)
(* first_feasible_solution, can_improve, parse_input).                     *)
(*                                                                         *)
(* Numbers are IEEE-754 doubles, the floats of the source, held exactly: a  *)
(* number is <<s, m, e>> with sign s in {-1, 0, 1}, m the magnitude as a   *)
(* sequence of 15-bit limbs (least significant first, odd unless the       *)
(* number is 0) and value s * m * 2^e.  RAdd, RMul and RDiv round the      *)
(* exact result to 53 significant bits, ties to even, as +, * and / of the *)
(* source do; XAdd and XMul do not round.  -0.0 is held as 0 (they compare *)
(* equal); overflow, subnormals, inf and nan are outside the model.        *)
(*                                                                         *)
(* A Python dict is a record [keys, val]: keys is the sequence of keys in  *)
(* insertion order (the order `for k in d` enumerates), val the mapping.   *)
(***************************************************************************)
EXTENDS Integers, Sequences, FiniteSets, TLC

(***************************************************************************)
(* Bounds of the enumerated inputs.                                        *)
(***************************************************************************)
MaxB == 2
Coefs == {-1, 0, 1}
Shapes == {<<1, 1>>, <<1, 2>>, <<2, 1>>, <<2, 2>>}

(***************************************************************************)
(* Natural numbers of any size as sequences of 15-bit limbs.               *)
(***************************************************************************)
LimbBits == 15
Base == 32768
MantBits == 53

RECURSIVE Pow2(_)
Pow2(k) == IF k = 0 THEN 1 ELSE 2 * Pow2(k - 1)

RECURSIVE IntBits(_)
IntBits(n) == IF n = 0 THEN 0 ELSE 1 + IntBits(n \div 2)

RECURSIVE IntTz(_)
IntTz(n) == IF n % 2 = 1 THEN 0 ELSE 1 + IntTz(n \div 2)

RECURSIVE BNorm(_)
BNorm(m) ==
    IF m = <<>> THEN m
    ELSE IF m[Len(m)] = 0 THEN BNorm(SubSeq(m, 1, Len(m) - 1)) ELSE m

RECURSIVE BFromInt(_)
BFromInt(n) == IF n = 0 THEN <<>> ELSE <<n % Base>> \o BFromInt(n \div Base)

BLimb(m, i) == IF i <= Len(m) THEN m[i] ELSE 0

RECURSIVE BAddC(_, _, _, _)
BAddC(a, b, i, cy) ==
    IF i > Len(a) /\ i > Len(b)
    THEN IF cy = 0 THEN <<>> ELSE <<cy>>
    ELSE LET s == BLimb(a, i) + BLimb(b, i) + cy
         IN  <<s % Base>> \o BAddC(a, b, i + 1, s \div Base)
BAdd(a, b) == BAddC(a, b, 1, 0)

RECURSIVE BSubC(_, _, _, _)
BSubC(a, b, i, bw) ==
    IF i > Len(a) THEN <<>>
    ELSE LET d == a[i] - BLimb(b, i) - bw
         IN  <<(d + Base) % Base>> \o BSubC(a, b, i + 1, IF d < 0 THEN 1 ELSE 0)
BSub(a, b) == BNorm(BSubC(a, b, 1, 0))

RECURSIVE BCmpFrom(_, _, _)
BCmpFrom(a, b, i) ==
    IF i = 0 THEN 0
    ELSE IF a[i] # b[i] THEN (IF a[i] < b[i] THEN -1 ELSE 1)
    ELSE BCmpFrom(a, b, i - 1)
BCmp(a, b) ==
    IF Len(a) # Len(b) THEN (IF Len(a) < Len(b) THEN -1 ELSE 1)
    ELSE BCmpFrom(a, b, Len(a))

RECURSIVE BMulSmallC(_, _, _, _)
BMulSmallC(a, k, i, cy) ==
    IF i > Len(a) THEN IF cy = 0 THEN <<>> ELSE <<cy>>
    ELSE LET p == a[i] * k + cy
         IN  <<p % Base>> \o BMulSmallC(a, k, i + 1, p \div Base)
BMulSmall(a, k) == IF k = 0 THEN <<>> ELSE BMulSmallC(a, k, 1, 0)

BShlLimbs(a, n) == IF a = <<>> THEN a ELSE [i \in 1 .. n |-> 0] \o a

RECURSIVE BMulFrom(_, _, _)
BMulFrom(a, b, j) ==
    IF j > Len(b) THEN <<>>
    ELSE BAdd(BShlLimbs(BMulSmall(a, b[j]), j - 1), BMulFrom(a, b, j + 1))
BMul(a, b) == BMulFrom(a, b, 1)

BShl(a, k) == BShlLimbs(BMulSmall(a, Pow2(k % LimbBits)), k \div LimbBits)
BShr(a, k) ==
    LET n == k \div LimbBits
        p == Pow2(k % LimbBits)
        q == Pow2(LimbBits - (k % LimbBits))
    IN  IF n >= Len(a) THEN <<>>
        ELSE BNorm([i \in 1 .. (Len(a) - n) |->
                       (a[i + n] \div p) + (BLimb(a, i + n + 1) % p) * q])
BBits(a) ==
    IF a = <<>> THEN 0 ELSE (Len(a) - 1) * LimbBits + IntBits(a[Len(a)])
BBit(a, i) == (BLimb(a, (i \div LimbBits) + 1) \div Pow2(i % LimbBits)) % 2
BLowZero(a, k) ==
    /\ \A i \in 1 .. Len(a) : i <= (k \div LimbBits) => a[i] = 0
    /\ BLimb(a, (k \div LimbBits) + 1) % Pow2(k % LimbBits) = 0
BTz(a) ==
    LET i == CHOOSE i \in 1 .. Len(a) :
                 a[i] # 0 /\ \A j \in 1 .. (i - 1) : a[j] = 0
    IN  (i - 1) * LimbBits + IntTz(a[i])

\* long division by d of the bits i, i - 1, .. 0 of the limb w, given the
\* quotient digit q and the remainder r of the bits above: <<digit, remainder>>
RECURSIVE BDivLimb(_, _, _, _, _)
BDivLimb(w, d, i, q, r) ==
    IF i < 0 THEN <<q, r>>
    ELSE LET r2 == BAdd(BMulSmall(r, 2),
                        IF (w \div Pow2(i)) % 2 = 1 THEN <<1>> ELSE <<>>)
         IN  IF BCmp(r2, d) >= 0
             THEN BDivLimb(w, d, i - 1, 2 * q + 1, BSub(r2, d))
             ELSE BDivLimb(w, d, i - 1, 2 * q, r2)

\* long division of n by d over the limbs j, j - 1, .. 1 of n, given the
\* quotient q and remainder r of the limbs above: <<quotient, remainder>>
RECURSIVE BDivLimbs(_, _, _, _, _)
BDivLimbs(n, d, j, q, r) ==
    IF j = 0 THEN <<BNorm(q), r>>
    ELSE LET s == BDivLimb(n[j], d, LimbBits - 1, 0, r)
         IN  IF s[1] >= 0 THEN BDivLimbs(n, d, j - 1, <<s[1]>> \o q, s[2])
             ELSE <<>>
BDivMod(n, d) == BDivLimbs(n, d, Len(n), <<>>, <<>>)

Zero == <<0, <<>>, 0>>
One == <<1, <<1>>, 0>>
Canon(s, m, e) ==
    IF m = <<>> THEN Zero ELSE LET t == BTz(m) IN <<s, BShr(m, t), e + t>>
RInt(n) == Canon(IF n < 0 THEN -1 ELSE 1, BFromInt(IF n < 0 THEN -n ELSE n), 0)

\* s * m * 2^e rounded to MantBits significant bits, ties to even
Round(s, m, e) ==
    LET d == BBits(m) - MantBits
    IN  IF d <= 0 THEN Canon(s, m, e)
        ELSE LET q == BShr(m, d)
                 up == /\ BBit(m, d - 1) = 1
                       /\ (~BLowZero(m, d - 1) \/ BBit(m, d) = 1)
             IN  Canon(s, IF up THEN BAdd(q, <<1>>) ELSE q, e + d)

\* exact negation, product and sum (no rounding)
XNeg(x) == <<-x[1], x[2], x[3]>>
XMul(x, y) ==
    IF x[1] = 0 \/ y[1] = 0 THEN Zero
    ELSE <<x[1] * y[1], BMul(x[2], y[2]), x[3] + y[3]>>
XAdd(x, y) ==
    IF x[1] = 0 THEN y
    ELSE IF y[1] = 0 THEN x
    ELSE LET e == IF x[3] < y[3] THEN x[3] ELSE y[3]
             mx == BShl(x[2], x[3] - e)
             my == BShl(y[2], y[3] - e)
             cmp == BCmp(mx, my)
         IN  IF x[1] = y[1] THEN Canon(x[1], BAdd(mx, my), e)
             ELSE IF cmp = 0 THEN Zero
             ELSE IF cmp > 0 THEN Canon(x[1], BSub(mx, my), e)
             ELSE Canon(y[1], BSub(my, mx), e)

\* Numbers with a one-limb magnitude and exponents at most LimbBits apart
\* are added, multiplied and compared as machine integers: the results are
\* below 2^31 and need no rounding.
Near(x, y) ==
    /\ Len(x[2]) = 1
    /\ Len(y[2]) = 1
    /\ x[3] - y[3] <= LimbBits
    /\ y[3] - x[3] <= LimbBits
\* x as an integer multiple of 2^e, for e <= x[3] <= e + LimbBits
Scaled(x, e) == x[1] * x[2][1] * Pow2(x[3] - e)
FromInt(n, e) ==
    IF n = 0 THEN Zero
    ELSE LET t == IntTz(IF n < 0 THEN -n ELSE n)
         IN  <<IF n < 0 THEN -1 ELSE 1,
               BFromInt((IF n < 0 THEN -n ELSE n) \div Pow2(t)), e + t>>

\* the position of the leading bit of a nonzero number
TopBit(x) == BBits(x[2]) + x[3]

RNeg(x) == XNeg(x)
\* an addend below a quarter of the last place of the other one is absorbed
RAdd(x, y) ==
    IF x[1] = 0 THEN y
    ELSE IF y[1] = 0 THEN x
    ELSE IF Near(x, y)
    THEN LET e == IF x[3] < y[3] THEN x[3] ELSE y[3]
         IN  FromInt(Scaled(x, e) + Scaled(y, e), e)
    ELSE IF TopBit(x) - TopBit(y) > MantBits + 2 THEN x
    ELSE IF TopBit(y) - TopBit(x) > MantBits + 2 THEN y
    ELSE LET p == XAdd(x, y) IN Round(p[1], p[2], p[3])
RMul(x, y) ==
    IF x[1] = 0 \/ y[1] = 0 THEN Zero
    ELSE IF Len(x[2]) = 1 /\ Len(y[2]) = 1
    THEN <<x[1] * y[1], BFromInt(x[2][1] * y[2][1]), x[3] + y[3]>>
    ELSE LET p == XMul(x, y) IN Round(p[1], p[2], p[3])
RDiv(x, y) ==
    IF x[1] = 0 THEN Zero
    ELSE IF y[2] = <<1>> THEN <<x[1] * y[1], x[2], x[3] - y[3]>>
    ELSE LET k == (MantBits + 2) + BBits(y[2]) - BBits(x[2])
             n == BShl(x[2], k)
             qr == BDivMod(n, y[2])
             m == BAdd(BMulSmall(qr[1], 2), IF qr[2] = <<>> THEN <<>> ELSE <<1>>)
         IN  Round(x[1] * y[1], m, x[3] - y[3] - k - 1)

MagCmp(x, y) ==
    LET e == IF x[3] < y[3] THEN x[3] ELSE y[3]
    IN  IF TopBit(x) # TopBit(y)
        THEN (IF TopBit(x) < TopBit(y) THEN -1 ELSE 1)
        ELSE BCmp(BShl(x[2], x[3] - e), BShl(y[2], y[3] - e))
RCmp(x, y) ==
    IF x[1] # y[1] THEN (IF x[1] < y[1] THEN -1 ELSE 1)
    ELSE IF x[1] = 0 THEN 0
    ELSE IF Near(x, y)
    THEN LET e == IF x[3] < y[3] THEN x[3] ELSE y[3]
             d == Scaled(x, e) - Scaled(y, e)
         IN  IF d < 0 THEN -1 ELSE IF d > 0 THEN 1 ELSE 0
    ELSE x[1] * MagCmp(x, y)
RLt(x, y) == RCmp(x, y) < 0
RLe(x, y) == RCmp(x, y) <= 0

\* the float of n / d
Rat(n, d) == RDiv(RInt(n), RInt(d))

(***************************************************************************)
(* Python dict with insertion order.                                       *)
(***************************************************************************)
EmptyDict == [keys |-> <<>>, val |-> <<>>]
DSet(d) == {d.keys[i] : i \in DOMAIN d.keys}
DPut(d, k, v) ==
    IF k \in DSet(d)
    THEN [d EXCEPT !.val[k] = v]
    ELSE [keys |-> Append(d.keys, k),
          val |-> [x \in DSet(d) \cup {k} |-> IF x = k THEN v ELSE d.val[x]]]
DDel(d, k) ==
    [keys |-> SelectSeq(d.keys, LAMBDA x : x # k),
     val |-> [x \in DSet(d) \ {k} |-> d.val[x]]]
\* the values of d rewritten in place (for k in d: d[k] = f[k]): same key order
DUpd(d, f) == [keys |-> d.keys, val |-> f]

\* dict of the mapping f on first..last, inserted in increasing order of key
DRange(first, last, f) ==
    [keys |-> [k \in 1 .. (last - first + 1) |-> first + k - 1], val |-> f]

(***************************************************************************)
(* parse_input: standard form to slack form.  Row i of the input becomes   *)
(* basic variable i + num_var with negated coefficients; c[-1] is v.       *)
(* inp = [nv, nc, A, b, c] holds the numbers of the input text (1-based).  *)
(***************************************************************************)
ParseA(inp) ==
    DRange(inp.nv, inp.nv + inp.nc - 1,
           [i \in inp.nv .. (inp.nv + inp.nc - 1) |->
               DRange(0, inp.nv - 1,
                      [j \in 0 .. (inp.nv - 1) |->
                          RNeg(inp.A[i - inp.nv + 1][j + 1])])])
ParseB(inp) ==
    [i \in inp.nv .. (inp.nv + inp.nc - 1) |-> inp.b[i - inp.nv + 1]]
ParseC(inp) ==
    DPut(DRange(0, inp.nv - 1, [i \in 0 .. (inp.nv - 1) |-> inp.c[i + 1]]),
         -1, Zero)

(***************************************************************************)
(* can_improve: first key of c, in enumeration order, with c[i] > 0 that   *)
(* is not the v cell; -1 when there is none.                               *)
(***************************************************************************)
\* the first key, in enumeration order, that is in the set S; none if none is
FirstKey(keys, S, none) ==
    LET P == {k \in DOMAIN keys : keys[k] \in S}
    IN  IF P = {} THEN none ELSE keys[CHOOSE k \in P : \A j \in P : k <= j]

\* can_improve without the test that skips the v cell
can_improve_NoSkip(cc) ==
    FirstKey(cc.keys, {i \in DSet(cc) : RLt(Zero, cc.val[i])}, -1)

\* can_improve accepting c[i] >= 0
can_improve_NonStrict(cc) ==
    FirstKey(cc.keys, {i \in DSet(cc) : RLe(Zero, cc.val[i]) /\ i # -1}, -1)

can_improve(cc) ==
    FirstKey(cc.keys, {i \in DSet(cc) : RLt(Zero, cc.val[i]) /\ i # -1}, -1)

(***************************************************************************)
(* pivot(A, b, c, e, l): the dictionary after e enters and l leaves.       *)
(***************************************************************************)
\* lines 150-151: the constant of the new row e
PivotBe(AA, bb, ee, ll) == RNeg(RDiv(bb[ll], AA.val[ll].val[ee]))

\* the new row e with the wrong sign on the column of l
PivotRowE_SignL(AA, ee, ll) ==
    LET rowl == AA.val[ll]
        ale == rowl.val[ee]
    IN  DPut([keys |-> SelectSeq(rowl.keys, LAMBDA i : i # ee),
              val |-> [i \in DSet(rowl) \ {ee} |->
                          RNeg(RDiv(rowl.val[i], ale))]],
             ll, RNeg(RDiv(One, ale)))

\* lines 153-157: the new row e, from row l solved for e
PivotRowE(AA, ee, ll) ==
    LET rowl == AA.val[ll]
        ale == rowl.val[ee]
    IN  DPut([keys |-> SelectSeq(rowl.keys, LAMBDA i : i # ee),
              val |-> [i \in DSet(rowl) \ {ee} |->
                          RNeg(RDiv(rowl.val[i], ale))]],
             ll, RDiv(One, ale))

\* row i # e keeping the column of e
PivotRow_KeepsE(row, rowe, ee, ll) ==
    LET aie == row.val[ee]
        upd == DUpd(row, [j \in DSet(row) |->
                    IF j # ee THEN RAdd(row.val[j], RMul(aie, rowe.val[j]))
                    ELSE row.val[j]])
    IN  DPut(upd, ll, RMul(aie, rowe.val[ll]))

\* lines 163-167: row i # e after substituting the new row e for e
PivotRow(row, rowe, ee, ll) ==
    LET aie == row.val[ee]
        upd == DUpd(row, [j \in DSet(row) |->
                    IF j # ee THEN RAdd(row.val[j], RMul(aie, rowe.val[j]))
                    ELSE row.val[j]])
    IN  DDel(DPut(upd, ll, RMul(aie, rowe.val[ll])), ee)

\* the constants with the rows other than e left as they were (be is the
\* constant of the new row e)
PivotB_NoUpdate(AA, bb, be, ee, ll) ==
    [i \in (DOMAIN bb \ {ll}) \cup {ee} |-> IF i = ee THEN be ELSE bb[i]]

\* lines 150-151, 162: the constants, be the constant of the new row e
PivotB(AA, bb, be, ee, ll) ==
    [i \in (DOMAIN bb \ {ll}) \cup {ee} |->
            IF i = ee THEN be ELSE RAdd(bb[i], RMul(AA.val[i].val[ee], be))]

\* the objective row with v left as it was
PivotObj_StaleV(cc, rowe, be, ee, ll) ==
    LET ce == cc.val[ee]
        c1 == DUpd(cc, [i \in DSet(cc) |->
                   IF i # -1 /\ i # ee
                   THEN RAdd(cc.val[i], RMul(ce, rowe.val[i]))
                   ELSE cc.val[i]])
    IN  DDel(DPut(c1, ll, RMul(ce, rowe.val[ll])), ee)

\* the objective row with c[e] * b[e] subtracted from v
PivotObj_SubV(cc, rowe, be, ee, ll) ==
    LET ce == cc.val[ee]
        c1 == DUpd(cc, [i \in DSet(cc) |->
                   IF i = -1 THEN RAdd(cc.val[i], RNeg(RMul(ce, be)))
                   ELSE IF i # ee THEN RAdd(cc.val[i], RMul(ce, rowe.val[i]))
                   ELSE cc.val[i]])
    IN  DDel(DPut(c1, ll, RMul(ce, rowe.val[ll])), ee)

\* lines 169-174: the objective row and v
PivotObj(cc, rowe, be, ee, ll) ==
    LET ce == cc.val[ee]
        c1 == DUpd(cc, [i \in DSet(cc) |->
                   IF i = -1 THEN RAdd(cc.val[i], RMul(ce, be))
                   ELSE IF i # ee THEN RAdd(cc.val[i], RMul(ce, rowe.val[i]))
                   ELSE cc.val[i]])
    IN  DDel(DPut(c1, ll, RMul(ce, rowe.val[ll])), ee)

\* lines 158-167: the rows of A1 (A with the key e added and the key l
\* deleted) once row e is rowe
PivotRows(A1, rowe, ee, ll) ==
    DUpd(A1, [i \in DSet(A1) |->
             IF i = ee THEN rowe ELSE PivotRow(A1.val[i], rowe, ee, ll)])

\* lines 150-174 given the new row e and its constant
PivotWith(AA, bb, cc, ee, ll, rowe, be) ==
    [A |-> PivotRows(DDel(DPut(AA, ee, EmptyDict), ll), rowe, ee, ll),
     b |-> PivotB(AA, bb, be, ee, ll),
     c |-> PivotObj(cc, rowe, be, ee, ll)]

pivot(AA, bb, cc, ee, ll) ==
    PivotWith(AA, bb, cc, ee, ll,
              PivotRowE(AA, ee, ll), PivotBe(AA, bb, ee, ll))

\* the operation gives the exact result: the double is not a rounded one
ExactDiv(p, q) == p[1] = 0 \/ q[2] = <<1>> \/ XMul(RDiv(p, q), q) = p

ExactMul(p, q) ==
    \/ p[1] = 0
    \/ q[1] = 0
    \/ BBits(BMul(p[2], q[2])) <= MantBits

ExactAdd(p, q) == p[1] = 0 \/ q[1] = 0 \/ Near(p, q) \/ RAdd(p, q) = XAdd(p, q)

\* r + p * q as the source computes it: the product, then the sum
ExactMulAdd(r, p, q) == ExactMul(p, q) /\ ExactAdd(r, RMul(p, q))

\* every division, product and sum of pivot(A, b, c, e, l) is exact, given
\* row l, its entry on e, the new row e, its constant and c[e]
PivotExactWith(AA, bb, cc, ee, ll, rowl, ale, rowe, be, ce) ==
    /\ ExactDiv(bb[ll], ale)
    /\ \A i \in DSet(rowl) :
          ExactDiv(IF i = ee THEN One ELSE rowl.val[i], ale)
    /\ \A i \in DSet(AA) \ {ll} :
          /\ ExactMulAdd(bb[i], AA.val[i].val[ee], be)
          /\ \A j \in DSet(AA.val[i]) :
                IF j = ee THEN ExactMul(AA.val[i].val[ee], rowe.val[ll])
                ELSE ExactMulAdd(AA.val[i].val[j], AA.val[i].val[ee],
                                 rowe.val[j])
    /\ \A i \in DSet(cc) :
          IF i = ee THEN ExactMul(ce, rowe.val[ll])
          ELSE ExactMulAdd(cc.val[i], ce, IF i = -1 THEN be ELSE rowe.val[i])

\* every division, product and sum of pivot(A, b, c, e, l) is exact
PivotExact(AA, bb, cc, ee, ll) ==
    PivotExactWith(AA, bb, cc, ee, ll, AA.val[ll], AA.val[ll].val[ee],
                   PivotRowE(AA, ee, ll), PivotBe(AA, bb, ee, ll), cc.val[ee])

(***************************************************************************)
(* Inputs.  Enumerated inputs have integer entries; the named scenarios    *)
(* are EXAMPLE and EXAMPLE2 of the source, a degenerate program (Chvatal's  *)
(* cycling example with its rows scaled to integers) and four programs on  *)
(* which the doubles of the source round.                                  *)
(***************************************************************************)
RSeq(t) == [k \in DOMAIN t |-> RInt(t[k])]
RMat(m) == [k \in DOMAIN m |-> RSeq(m[k])]

EnumInputs(shapes) ==
    UNION {[nv : {s[1]}, nc : {s[2]},
            A : [1 .. s[2] -> [1 .. s[1] -> {RInt(k) : k \in Coefs}]],
            b : [1 .. s[2] -> {RInt(k) : k \in (-MaxB) .. MaxB}],
            c : [1 .. s[1] -> {RInt(k) : k \in Coefs}]] : s \in shapes}

EXAMPLE ==
    [nv |-> 3, nc |-> 4,
     A |-> RMat(<<<<1, 1, 1>>, <<1, 0, 0>>, <<0, 1, 0>>, <<0, 0, 1>>>>),
     b |-> RSeq(<<5, 3, 1, 4>>),
     c |-> <<RInt(1), RInt(2), Rat(1, 2)>>]

EXAMPLE2 ==
    [nv |-> 2, nc |-> 3,
     A |-> RMat(<<<<1, -1>>, <<-1, -1>>, <<-1, 4>>>>),
     b |-> RSeq(<<8, -3, 2>>),
     c |-> RSeq(<<1, 3>>)]

DEGENERATE ==
    [nv |-> 4, nc |-> 2,
     A |-> RMat(<<<<1, -11, -5, 18>>, <<1, -3, -1, 2>>>>),
     b |-> RSeq(<<0, 0>>),
     c |-> RSeq(<<10, -57, -9, -24>>)]

\* Programs on which the divisions of pivot round; the first three have all
\* b >= 0.
\* ROUNDED_UNBOUNDED: the optimum is z = 2/3 at x = (2/3, 1/9).
ROUNDED_UNBOUNDED ==
    [nv |-> 2, nc |-> 2,
     A |-> RMat(<<<<5, -3>>, <<3, 0>>>>),
     b |-> RSeq(<<3, 2>>),
     c |-> RSeq(<<1, 0>>)]

\* ROUNDED_NEGATIVE: the optimum is z = 20 at x = (0, 5).
ROUNDED_NEGATIVE ==
    [nv |-> 2, nc |-> 2,
     A |-> RMat(<<<<3, 1>>, <<-4, 1>>>>),
     b |-> RSeq(<<5, 5>>),
     c |-> RSeq(<<5, 4>>)]

\* ROUNDED_STALL: the optimum is z = 9/2 at x = (0, 3/2).
ROUNDED_STALL ==
    [nv |-> 2, nc |-> 2,
     A |-> RMat(<<<<3, 2>>, <<1, 2>>>>),
     b |-> RSeq(<<3, 3>>),
     c |-> RSeq(<<1, 3>>)]

\* ROUNDED_PHASE1: b(i) < 0, the second pivot of phase 1 divides by 3.
ROUNDED_PHASE1 ==
    [nv |-> 2, nc |-> 1,
     A |-> RMat(<<<<2, -3>>>>),
     b |-> RSeq(<<-2>>),
     c |-> RSeq(<<-3, -1>>)]

Inputs ==
    EnumInputs(Shapes)
        \cup {EXAMPLE, EXAMPLE2, DEGENERATE, ROUNDED_UNBOUNDED,
              ROUNDED_NEGATIVE, ROUNDED_STALL, ROUNDED_PHASE1}

(***************************************************************************)
(* State.  A, b, c, num_var, new_var, e, l are the variables of the source *)
(* (e and l the locals of the running function); pc is the position in     *)
(* simplex / first_feasible_solution; outcome, x, z what is printed.       *)
(* History variables: visited, the bases phase 2 has been at; revisited,   *)
(* phase 2 came back to one of them; degenerate, phase 2 started from an   *)
(* infeasible dictionary or pivoted on a row with b(l) = 0; p1pivots, the  *)
(* pivots done by first_feasible_solution; rounded, some operation of a    *)
(* pivot so far gave a rounded result; startedFeasible, phase 2 started on *)
(* a dictionary with all b(i) >= 0.                                        *)
(***************************************************************************)
VARIABLES inp, num_var, A, b, c, new_var, e, l, pc, outcome, x, z,
          visited, revisited, degenerate, p1pivots, rounded, startedFeasible

vars == <<inp, num_var, A, b, c, new_var, e, l, pc, outcome, x, z,
          visited, revisited, degenerate, p1pivots, rounded, startedFeasible>>

NoIndex == -1
NoneVal == -2

B == DOMAIN b
N == DSet(c) \ {NoIndex}
v == c.val[NoIndex]

\* pivot updates A, b and c in place: d is the dictionary it leaves
PivotStep(d) == A' = d.A /\ b' = d.b /\ c' = d.c

Init ==
    /\ inp \in Inputs
    /\ num_var = inp.nv
    /\ A = ParseA(inp)
    /\ b = ParseB(inp)
    /\ c = ParseC(inp)
    /\ new_var = NoneVal
    /\ e = NoneVal
    /\ l = NoneVal
    /\ pc = "start"
    /\ outcome = "none"
    /\ x = <<>>
    /\ z = Zero
    /\ visited = {}
    /\ revisited = FALSE
    /\ degenerate = FALSE
    /\ p1pivots = 0
    /\ rounded = FALSE
    /\ startedFeasible = FALSE

\* the gate of phase 1 taken as b[i] <= 0
NeedsPhase1_NonStrict == \E i \in DOMAIN b : RLe(b[i], Zero)

\* simplex, line 119: the test that gates phase 1
NeedsPhase1 == \E i \in DOMAIN b : RLt(b[i], Zero)

\* simplex, lines 119-121, all b[i] >= 0: phase 2 starts on the initial dictionary
SkipPhase1 ==
    /\ pc = "start"
    /\ ~NeedsPhase1
    /\ e' = can_improve(c)
    /\ pc' = "loop"
    /\ visited' = {B}
    /\ degenerate' = (\E i \in B : RLt(b[i], Zero))
    /\ startedFeasible' = (\A i \in B : RLe(Zero, b[i]))
    /\ UNCHANGED <<inp, num_var, A, b, c, new_var, l, outcome, x, z,
                   revisited, p1pivots, rounded>>

\* the choice of l taking the first row with b[i] < 0
MostNegativeRow_FirstNegative(AA, bb) ==
    FirstKey(AA.keys, {i \in DSet(AA) : RLt(bb[i], Zero)}, NoneVal)

\* first_feasible_solution, lines 188-193: first row attaining the least b[i] < 0
MostNegativeRow(AA, bb) ==
    FirstKey(AA.keys,
             {i \in DSet(AA) : /\ RLt(bb[i], Zero)
                               /\ \A j \in DSet(AA) : RLe(bb[i], bb[j])},
             NoneVal)

\* first_feasible_solution, lines 181-193: add the artificial variable, choose l
AddArtificial ==
    /\ pc = "start"
    /\ NeedsPhase1
    /\ LET nw == Len(A.keys) + Len(c.keys) - 1
       IN  /\ new_var' = nw
           /\ A' = DUpd(A, [i \in DSet(A) |-> DPut(A.val[i], nw, One)])
           /\ c' = DPut(c, nw, One)
    /\ l' = MostNegativeRow(A, b)
    /\ pc' = "ffs_pivot1"
    /\ UNCHANGED <<inp, num_var, b, e, outcome, x, z, visited, revisited,
                   p1pivots, degenerate, rounded, startedFeasible>>

\* first_feasible_solution, line 199: pivot(A, b, c, new_var, l)
FirstPivot ==
    /\ pc = "ffs_pivot1"
    /\ PivotStep(pivot(A, b, c, new_var, l))
    /\ p1pivots' = p1pivots + 1
    /\ pc' = "ffs_scan"
    /\ rounded' = (rounded \/ ~PivotExact(A, b, c, new_var, l))
    /\ UNCHANGED <<inp, num_var, new_var, e, l, outcome, x, z, visited,
                   revisited, degenerate, startedFeasible>>

\* the scan of row new_var starting at its second column
FirstNegative_SkipFirst(row) ==
    FirstKey(row.keys,
             {i \in DSet(row) : RLt(row.val[i], Zero) /\ i # row.keys[1]},
             NoneVal)

\* the scan of row new_var accepting a coefficient <= 0
FirstNegative_NonStrict(row) ==
    FirstKey(row.keys, {i \in DSet(row) : RLe(row.val[i], Zero)}, NoneVal)

\* first_feasible_solution, lines 201-205: first column of row new_var with a
\* negative coefficient
FirstNegative(row) ==
    FirstKey(row.keys, {i \in DSet(row) : RLt(row.val[i], Zero)}, NoneVal)

\* first_feasible_solution, lines 206-208
ReportInfeasible ==
    /\ pc = "ffs_scan"
    /\ FirstNegative(A.val[new_var]) = NoneVal
    /\ outcome' = "Infeasible"
    /\ pc' = "done"
    /\ UNCHANGED <<inp, num_var, A, b, c, new_var, e, l, x, z, visited,
                   revisited, p1pivots, degenerate, rounded,
                   startedFeasible>>

\* first_feasible_solution, lines 201-210: pivot(A, b, c, e, new_var)
SecondPivot ==
    /\ pc = "ffs_scan"
    /\ FirstNegative(A.val[new_var]) # NoneVal
    /\ e' = FirstNegative(A.val[new_var])
    /\ PivotStep(pivot(A, b, c, e', new_var))
    /\ p1pivots' = p1pivots + 1
    /\ pc' = "ffs_remove"
    /\ rounded' = (rounded \/ ~PivotExact(A, b, c, e', new_var))
    /\ UNCHANGED <<inp, num_var, new_var, l, outcome, x, z, visited,
                   revisited, degenerate, startedFeasible>>

\* the removal that leaves the artificial variable in the objective row
RemoveArtificial_KeepsC ==
    /\ pc = "ffs_remove"
    /\ A' = DUpd(A, [i \in DSet(A) |-> DDel(A.val[i], new_var)])
    /\ pc' = "ffs_done"
    /\ UNCHANGED <<inp, num_var, b, c, new_var, e, l, outcome, x, z, visited,
                   revisited, p1pivots, degenerate, rounded,
                   startedFeasible>>

\* first_feasible_solution, lines 212-218: remove the artificial variable, return
RemoveArtificial ==
    /\ pc = "ffs_remove"
    /\ c' = DDel(c, new_var)
    /\ A' = DUpd(A, [i \in DSet(A) |-> DDel(A.val[i], new_var)])
    /\ pc' = "ffs_done"
    /\ UNCHANGED <<inp, num_var, b, new_var, e, l, outcome, x, z, visited,
                   revisited, p1pivots, degenerate, rounded,
                   startedFeasible>>

\* simplex, lines 120-121: first_feasible_solution has returned (its locals
\* new_var and l are gone, as before the call), e = can_improve(c)
StartPhase2 ==
    /\ pc = "ffs_done"
    /\ e' = can_improve(c)
    /\ l' = NoneVal
    /\ new_var' = NoneVal
    /\ pc' = "loop"
    /\ visited' = {B}
    /\ degenerate' = (\E i \in B : RLt(b[i], Zero))
    /\ startedFeasible' = (\A i \in B : RLe(Zero, b[i]))
    /\ UNCHANGED <<inp, num_var, A, b, c, outcome, x, z, revisited, p1pivots,
                   rounded>>

\* simplex, lines 123-130: ratio test, first row attaining the least bound
RatioBound(AA, bb, ee, i) == RNeg(RDiv(bb[i], AA.val[i].val[ee]))

\* the ratio test keeping the last row that attains the least bound
LeavingRow_LastTie(AA, bb, ee) ==
    LET Cand == {i \in DSet(AA) : RLt(AA.val[i].val[ee], Zero)}
        Best == {k \in DOMAIN AA.keys :
                    /\ AA.keys[k] \in Cand
                    /\ \A j \in Cand :
                          RLe(RatioBound(AA, bb, ee, AA.keys[k]),
                              RatioBound(AA, bb, ee, j))}
    IN  IF Best = {} THEN NoneVal
        ELSE AA.keys[CHOOSE k \in Best : \A j \in Best : j <= k]

LeavingRow(AA, bb, ee) ==
    LET Cand == {i \in DSet(AA) : RLt(AA.val[i].val[ee], Zero)}
    IN  FirstKey(AA.keys,
                 {i \in Cand : \A j \in Cand :
                                  RLe(RatioBound(AA, bb, ee, i),
                                      RatioBound(AA, bb, ee, j))},
                 NoneVal)

\* simplex, lines 122-136: one iteration of the phase-2 loop that pivots
Phase2Pivot ==
    /\ pc = "loop"
    /\ e # NoIndex
    /\ LeavingRow(A, b, e) # NoneVal
    /\ l' = LeavingRow(A, b, e)
    /\ PivotStep(pivot(A, b, c, e, l'))
    /\ e' = can_improve(c')
    /\ revisited' = (revisited \/ DOMAIN b' \in visited)
    /\ visited' = visited \cup {DOMAIN b'}
    /\ degenerate' = (degenerate \/ b[l'] = Zero)
    /\ rounded' = (rounded \/ ~PivotExact(A, b, c, e, l'))
    /\ UNCHANGED <<inp, num_var, new_var, pc, outcome, x, z, p1pivots,
                   startedFeasible>>

\* simplex, lines 124-133: l = None, no row has A[i][e] < 0
ReportUnbounded ==
    /\ pc = "loop"
    /\ e # NoIndex
    /\ LeavingRow(A, b, e) = NoneVal
    /\ l' = NoneVal
    /\ outcome' = "Unbounded"
    /\ pc' = "done"
    /\ UNCHANGED <<inp, num_var, A, b, c, new_var, e, x, z, visited,
                   revisited, p1pivots, degenerate, rounded,
                   startedFeasible>>

\* simplex, lines 138-144: the printed assignment and objective value
Solution(bb, nv) ==
    [i \in 0 .. (nv - 1) |-> IF i \in DOMAIN bb THEN bb[i] ELSE Zero]

ReportOptimal ==
    /\ pc = "loop"
    /\ e = NoIndex
    /\ x' = Solution(b, num_var)
    /\ z' = c.val[NoIndex]
    /\ outcome' = "Optimal"
    /\ pc' = "done"
    /\ UNCHANGED <<inp, num_var, A, b, c, new_var, e, l, visited, revisited,
                   p1pivots, degenerate, rounded, startedFeasible>>

Next ==
    \/ SkipPhase1
    \/ AddArtificial
    \/ FirstPivot
    \/ ReportInfeasible
    \/ SecondPivot
    \/ RemoveArtificial
    \/ StartPhase2
    \/ Phase2Pivot
    \/ ReportUnbounded
    \/ ReportOptimal

Spec == Init /\ [][Next]_vars

\* The program is sequential: a step that can be taken is taken.  This is
\* WF_vars(Next), that is []<>~ENABLED <<Next>>_vars \/ []<><<Next>>_vars, with
\* ENABLED <<Next>>_vars written out: a step is possible exactly until the
\* run has ended (pc = "done").
Fairness == []<>(pc = "done") \/ []<><<Next>>_vars

FairSpec == Spec /\ Fairness

(***************************************************************************)
(* The linear program of the input, decided independently of the solver by *)
(* Fourier-Motzkin elimination over the integers.  An inequality           *)
(* [a, b, s] reads  a[1]*x1 + ... + a[n]*xn <= b  (< b when s is TRUE).    *)
(***************************************************************************)
Abs(n) == IF n < 0 THEN -n ELSE n

RECURSIVE GCD(_, _)
GCD(m, n) == IF n = 0 THEN m ELSE GCD(n, m % n)

\* a number of the input as the fraction FNum / FDen of integers
FDen(r) == IF r[3] < 0 THEN Pow2(-r[3]) ELSE 1
FNum(r) ==
    r[1] * (BLimb(r[2], 1) + Base * BLimb(r[2], 2))
         * (IF r[3] > 0 THEN Pow2(r[3]) ELSE 1)

RECURSIVE DenProd(_, _)
DenProd(t, k) == IF k = 0 THEN 1 ELSE FDen(t[k]) * DenProd(t, k - 1)

RECURSIVE GCDSeq(_, _)
GCDSeq(t, k) == IF k = 0 THEN 0 ELSE GCD(Abs(t[k]), GCDSeq(t, k - 1))

NormIneq(q) ==
    LET g == GCD(Abs(q.b), GCDSeq(q.a, Len(q.a)))
    IN  IF g = 0 THEN q
        ELSE [a |-> [j \in DOMAIN q.a |-> q.a[j] \div g],
              b |-> q.b \div g, s |-> q.s]

\* coefs . x <= rhs scaled by the product of the denominators
MkIneq(coefs, rhs, strict) ==
    LET D == DenProd(coefs, Len(coefs)) * FDen(rhs)
    IN  NormIneq([a |-> [j \in DOMAIN coefs |->
                            FNum(coefs[j]) * (D \div FDen(coefs[j]))],
                  b |-> FNum(rhs) * (D \div FDen(rhs)),
                  s |-> strict])

NonNeg(n, j) ==
    [a |-> [i \in 1 .. n |-> IF i = j THEN -1 ELSE 0], b |-> 0, s |-> FALSE]

Eliminate(S, k) ==
    LET pos == {q \in S : q.a[k] > 0}
        neg == {q \in S : q.a[k] < 0}
        Comb(p, q) ==
            NormIneq([a |-> [j \in DOMAIN p.a |->
                                (-q.a[k]) * p.a[j] + p.a[k] * q.a[j]],
                      b |-> (-q.a[k]) * p.b + p.a[k] * q.b,
                      s |-> p.s \/ q.s])
    IN  {q \in S : q.a[k] = 0} \cup {Comb(p, q) : p \in pos, q \in neg}

RECURSIVE ElimFrom(_, _)
ElimFrom(S, k) == IF k = 0 THEN S ELSE ElimFrom(Eliminate(S, k), k - 1)

Satisfiable(S, n) ==
    \A q \in ElimFrom(S, n) : IF q.s THEN 0 < q.b ELSE 0 <= q.b

\* x >= 0 and A.x <= b of the input
Constraints(in) ==
    {NonNeg(in.nv, j) : j \in 1 .. in.nv}
        \cup {MkIneq(in.A[k], in.b[k], FALSE) : k \in 1 .. in.nc}

\* d >= 0, A.d <= 0, c.d >= 1: a direction along which c.x grows for ever
Rays(in) ==
    {NonNeg(in.nv, j) : j \in 1 .. in.nv}
        \cup {MkIneq(in.A[k], Zero, FALSE) : k \in 1 .. in.nc}
        \cup {MkIneq([j \in 1 .. in.nv |-> RNeg(in.c[j])], RInt(-1), FALSE)}

LPFeasible(in) == Satisfiable(Constraints(in), in.nv)
LPUnbounded(in) == LPFeasible(in) /\ Satisfiable(Rays(in), in.nv)
\* The inequalities on t alone that follow from x >= 0, A.x <= b and
\* t <= c.x (t is variable nv + 1): each reads  a * t <= b  with a >= 0.
ObjectiveBounds(in) ==
    LET n == in.nv
        Ext(q) == [a |-> [j \in 1 .. (n + 1) |-> IF j <= n THEN q.a[j] ELSE 0],
                   b |-> q.b, s |-> q.s]
        obj == MkIneq([j \in 1 .. (n + 1) |->
                          IF j <= n THEN RNeg(in.c[j]) ELSE One],
                      Zero, FALSE)
    IN  ElimFrom({Ext(q) : q \in Constraints(in)} \cup {obj}, n)

\* some feasible point has c.x > val
LPBetterThan(in, val) ==
    \A q \in ObjectiveBounds(in) :
        IF q.a[in.nv + 1] = 0 THEN 0 <= q.b
        ELSE RLt(XMul(RInt(q.a[in.nv + 1]), val), RInt(q.b))

\* the exact sum of row[j] * xs[j - 1] for j in 1..k (xs is indexed from 0)
RECURSIVE Dot(_, _, _)
Dot(row, xs, k) ==
    IF k = 0 THEN Zero ELSE XAdd(XMul(row[k], xs[k - 1]), Dot(row, xs, k - 1))

\* xs (indexed 0..nv-1) satisfies x >= 0 and A.x <= b of the input
PointFeasible(in, xs) ==
    /\ \A j \in 0 .. (in.nv - 1) : RLe(Zero, xs[j])
    /\ \A k \in 1 .. in.nc : RLe(Dot(in.A[k], xs, in.nv), in.b[k])

Feasible == \A i \in B : RLe(Zero, b[i])

(***************************************************************************)
(* C1: whenever simplex ends with the Optimal outcome, the printed         *)
(* assignment satisfies x >= 0 and A.x <= b of the input and no feasible   *)
(* point has a larger objective value.                                     *)
(***************************************************************************)
C1_OptimalIsOptimum ==
    outcome = "Optimal" =>
        /\ PointFeasible(inp, x)
        /\ ~LPBetterThan(inp, Dot(inp.c, x, inp.nv))

(***************************************************************************)
(* C2: when first_feasible_solution returns (both pivots done, artificial  *)
(* variable removed), b(i) >= 0 for every basic i.                         *)
(***************************************************************************)
C2_Phase1Feasible == pc = "ffs_done" => Feasible

(***************************************************************************)
(* C3: whenever phase 2 reports Unbounded, the input program has a         *)
(* feasible point and its objective is unbounded above on the feasible     *)
(* region.                                                                 *)
(***************************************************************************)
C3_UnboundedIsUnbounded == outcome = "Unbounded" => LPUnbounded(inp)

(***************************************************************************)
(* C4: whenever phase 1 reports Infeasible, no x >= 0 satisfies A.x <= b;  *)
(* the report follows the single pivot(a0, l), it is terminal and no       *)
(* solution is produced.                                                   *)
(***************************************************************************)
C4_InfeasibleIsInfeasible ==
    outcome = "Infeasible" =>
        /\ ~LPFeasible(inp)
        /\ pc = "done"
        /\ p1pivots = 1
        /\ x = <<>>
        /\ ~ENABLED Next

C4_Witness ==
    /\ outcome = "Infeasible"
    /\ \E k \in 1 .. inp.nc : RLt(inp.b[k], Zero)

(***************************************************************************)
(* C5: feasibility is an invariant of phase 2: at the start of phase 2 and *)
(* after every pivot of the phase-2 loop, b(i) >= 0 for every basic i.     *)
(***************************************************************************)
C5_Phase2Feasible == pc = "loop" => Feasible

(***************************************************************************)
(* C6: at the Optimal outcome every nonbasic j has c(j) <= 0, and the      *)
(* entering variable the loop works with is a nonbasic index with          *)
(* c(e) > 0, never the v cell.                                             *)
(***************************************************************************)
C6_OptimalityCertificate ==
    /\ outcome = "Optimal" => \A j \in N : RLe(c.val[j], Zero)
    /\ (pc = "loop" /\ e # NoIndex) => (e \in N /\ RLt(Zero, c.val[e]))

\* Optimal reached with v > 0 and the v cell enumerated before a nonbasic key
C6_Witness ==
    /\ outcome = "Optimal"
    /\ RLt(Zero, v)
    /\ c.keys[Len(c.keys)] # NoIndex

(***************************************************************************)
(* C7 (as claimed): in the initial dictionary and after every pivot of     *)
(* phase 1 and phase 2, v equals the input objective at the current basic  *)
(* solution; the printed z equals c.x of the printed assignment.           *)
(***************************************************************************)
AfterPivot == pc \in {"ffs_scan", "ffs_remove", "ffs_done", "loop", "done"}
ObjectiveAtBasic == Dot(inp.c, Solution(b, num_var), num_var)
ArtificialValue == IF new_var \in B THEN b[new_var] ELSE Zero

C7_VIsObjective ==
    /\ (pc = "start" \/ AfterPivot) => v = ObjectiveAtBasic
    /\ outcome = "Optimal" => z = Dot(inp.c, x, num_var)

(***************************************************************************)
(* C7 (amended): in the initial dictionary and after every pivot, as long  *)
(* as no operation of a pivot has rounded, v equals the input objective at *)
(* the current basic solution plus the value of the artificial variable    *)
(* (b(a0) while a0 is basic, 0 otherwise); the printed z equals c.x of the *)
(* printed assignment.                                                     *)
(***************************************************************************)
C7_VIsObjectivePlusArtificial ==
    ~rounded =>
        /\ (pc = "start" \/ AfterPivot) =>
               v = XAdd(ObjectiveAtBasic, ArtificialValue)
        /\ outcome = "Optimal" => z = Dot(inp.c, x, num_var)

\* after pivot(a0, l): the artificial variable is basic and v is not c.x
C7_Witness ==
    /\ pc = "ffs_scan"
    /\ ~rounded
    /\ new_var \in B
    /\ v # ObjectiveAtBasic

(***************************************************************************)
(* C8: after every pivot the key set of every row of A is N, the keys of c *)
(* without the v cell are N, the keys of A and of b are B, B and N are     *)
(* disjoint and together are the active index set: 0..numVar+numCon-1,     *)
(* plus the artificial index numVar+numCon from its introduction to its    *)
(* removal.  After phase 1 the artificial index is nowhere.                *)
(***************************************************************************)
ArtificialActive ==
    \/ pc \in {"ffs_pivot1", "ffs_scan", "ffs_remove"}
    \/ outcome = "Infeasible"
ActiveIndices ==
    (0 .. (inp.nv + inp.nc - 1))
        \cup (IF ArtificialActive THEN {inp.nv + inp.nc} ELSE {})

C8_KeySets ==
    AfterPivot =>
        /\ \A i \in DSet(A) : DSet(A.val[i]) = N
        /\ \A i \in DSet(A) : Len(A.val[i].keys) = Cardinality(N)
        /\ DSet(A) = B
        /\ Len(A.keys) = Cardinality(B)
        /\ Len(c.keys) = Cardinality(N) + 1
        /\ B \cap N = {}
        /\ B \cup N = ActiveIndices
        /\ ArtificialActive => new_var = inp.nv + inp.nc

\* phase 1 completed and phase 2 has pivoted: the artificial index is gone
C8_Witness ==
    /\ pc = "loop"
    /\ p1pivots = 2
    /\ Cardinality(visited) > 1
    /\ (inp.nv + inp.nc) \notin B \cup N

(***************************************************************************)
(* C9: pivot is an involution in exact arithmetic: for the current         *)
(* dictionary, any nonbasic e and basic l with a(l,e) # 0, when no          *)
(* operation of pivot(e,l) and of the pivot(l,e) that follows rounds, the   *)
(* two give back the same A, b, c and v as mappings (hence the same B and   *)
(* N).                                                                     *)
(***************************************************************************)
AsMapping(AA, bb, cc) ==
    [A |-> [i \in DSet(AA) |-> AA.val[i].val], b |-> bb, c |-> cc.val]

PivotTwice(ee, ll) ==
    LET d1 == pivot(A, b, c, ee, ll)
        d2 == pivot(d1.A, d1.b, d1.c, ll, ee)
    IN  AsMapping(d2.A, d2.b, d2.c)

\* pivot(e,l) and then pivot(l,e) compute in exact arithmetic
PivotTwiceExact(ee, ll) ==
    /\ PivotExact(A, b, c, ee, ll)
    /\ LET d1 == pivot(A, b, c, ee, ll)
       IN  PivotExact(d1.A, d1.b, d1.c, ll, ee)

C9_PivotInvolution ==
    pc # "done" =>
        \A ee \in N : \A ll \in B :
            A.val[ll].val[ee] # Zero =>
                \/ PivotTwice(ee, ll) = AsMapping(A, b, c)
                \/ ~PivotTwiceExact(ee, ll)

\* a dictionary met after a pivot in which some pivot(e,l) divides by a
\* number other than 1 and -1 and changes b and v
C9_Witness ==
    /\ pc = "loop"
    /\ \E ee \in N : \E ll \in B :
          /\ A.val[ll].val[ee] # Zero
          /\ A.val[ll].val[ee] \notin {One, RNeg(One)}
          /\ PivotTwiceExact(ee, ll)
          /\ pivot(A, b, c, ee, ll).c.val[NoIndex] # v

(***************************************************************************)
(* C10 (as claimed): the phase-2 loop never returns to a basis it has      *)
(* already visited (so every run halts).                                   *)
(***************************************************************************)
C10_NeverRevisits == ~revisited

(***************************************************************************)
(* C10 (amended): phase 1 performs at most two pivots; the phase-2 loop    *)
(* returns to a basis it has visited only if it started from an infeasible *)
(* dictionary, made a degenerate pivot (b(l) = 0) or some operation of a   *)
(* pivot rounded; and every run either halts with exactly one of Optimal,  *)
(* Unbounded, Infeasible or returns to a visited basis.                    *)
(***************************************************************************)
C10_HaltsOrRevisits ==
    /\ [](p1pivots <= 2)
    /\ [](revisited => (degenerate \/ rounded))
    /\ [](pc = "done" <=> outcome \in {"Optimal", "Unbounded", "Infeasible"})
    /\ <>(pc = "done" \/ revisited)

\* the degenerate program: phase 2 is back at a basis it has visited
C10_Witness ==
    /\ revisited
    /\ pc = "loop"
    /\ p1pivots = 0

(***************************************************************************)
(* C11: at each of the three call sites of pivot (pivot(a0, l) and         *)
(* pivot(j, a0) of phase 1, pivot(e, l) of phase 2) the entering index is  *)
(* nonbasic and a key of every row and of c, the leaving index is basic    *)
(* and not None, and a(l,e) # 0: pivot divides by a nonzero number and     *)
(* reads no missing key.                                                   *)
(***************************************************************************)
PivotPrecondition(ee, ll) ==
    /\ ll # NoneVal
    /\ ll \in B
    /\ ll \in DSet(A)
    /\ ee \in N
    /\ ee \notin B
    /\ \A i \in DSet(A) : ee \in DSet(A.val[i])
    /\ A.val[ll].val[ee] # Zero

C11_PivotPrecondition ==
    /\ pc = "ffs_pivot1" => PivotPrecondition(new_var, l)
    /\ pc = "ffs_scan" => new_var \in DSet(A)
    /\ (pc = "ffs_scan" /\ FirstNegative(A.val[new_var]) # NoneVal) =>
           PivotPrecondition(FirstNegative(A.val[new_var]), new_var)
    /\ (pc = "loop" /\ e # NoIndex) =>
           /\ \A i \in DSet(A) : e \in DSet(A.val[i])
           /\ LeavingRow(A, b, e) # NoneVal =>
                  PivotPrecondition(e, LeavingRow(A, b, e))

\* all three call sites have pivoted, in a dictionary with a zero coefficient
C11_Witness ==
    /\ pc = "loop"
    /\ p1pivots = 2
    /\ Cardinality(visited) > 1
    /\ \E i \in DSet(A) : \E j \in N : A.val[i].val[j] = Zero

(***************************************************************************)
(* C12: in every iteration of the phase-2 loop that pivots, the leaving    *)
(* index l is a basic row with a(l,e) < 0 whose bound -b(l)/a(l,e) is the  *)
(* least of -b(i)/a(i,e) over the basic rows i with a(i,e) < 0, and no row *)
(* enumerated before l attains that bound; the pivot done is pivot(e, l).  *)
(* Unbounded is reported exactly in the iterations where no basic row has  *)
(* a(i,e) < 0.                                                             *)
(***************************************************************************)
RowPosition(i) == CHOOSE p \in DOMAIN A.keys : A.keys[p] = i
NegativeRows == {i \in B : RLt(A.val[i].val[e], Zero)}
Bound(i) == RNeg(RDiv(b[i], A.val[i].val[e]))
Iteration == pc = "loop" /\ e # NoIndex

C12_LeavingRule ==
    [][/\ (Iteration /\ pc' = "loop") =>
              /\ l' \in NegativeRows
              /\ \A i \in NegativeRows : RLe(Bound(l'), Bound(i))
              /\ \A i \in NegativeRows :
                    Bound(i) = Bound(l') => RowPosition(l') <= RowPosition(i)
              /\ DOMAIN b' = (B \ {l'}) \cup {e}
              /\ b'[e] = Bound(l')
       /\ (Iteration /\ NegativeRows = {}) => outcome' = "Unbounded"
       /\ (outcome' = "Unbounded" /\ outcome # "Unbounded") =>
              (Iteration /\ NegativeRows = {})
       /\ (Iteration /\ NegativeRows # {}) => pc' = "loop"]_vars

\* phase 2 has pivoted and is at an iteration where two rows attain the least
\* bound
C12_Witness ==
    /\ Iteration
    /\ Cardinality(visited) > 1
    /\ \E i \in NegativeRows : \E j \in NegativeRows \ {i} :
          /\ Bound(i) = Bound(j)
          /\ \A k \in NegativeRows : RLe(Bound(i), Bound(k))

(***************************************************************************)
(* C13: first_feasible_solution runs if and only if some constant of the   *)
(* input is negative.  When all are >= 0 no artificial variable is ever    *)
(* introduced, phase 2 starts on the dictionary parse_input built and its  *)
(* first pivot is applied to that dictionary.                              *)
(***************************************************************************)
InputNegative == \E k \in 1 .. inp.nc : RLt(inp.b[k], Zero)
Phase1Ran ==
    \/ pc \in {"ffs_pivot1", "ffs_scan", "ffs_remove", "ffs_done"}
    \/ p1pivots > 0
    \/ new_var # NoneVal
    \/ outcome = "Infeasible"
InitialDictionary == [A |-> ParseA(inp), b |-> ParseB(inp), c |-> ParseC(inp)]
PivotsOfPhase2 == Cardinality(visited) - 1

C13_Phase1Gating ==
    /\ pc # "start" => (Phase1Ran <=> InputNegative)
    /\ ~InputNegative =>
           /\ ~Phase1Ran
           /\ (inp.nv + inp.nc) \notin B \cup N
           /\ \A i \in DSet(A) : (inp.nv + inp.nc) \notin DSet(A.val[i])
           /\ (pc = "loop" /\ PivotsOfPhase2 = 0) =>
                  [A |-> A, b |-> b, c |-> c] = InitialDictionary
           /\ (pc = "loop" /\ PivotsOfPhase2 = 1 /\ ~revisited) =>
                  [A |-> A, b |-> b, c |-> c] =
                      pivot(InitialDictionary.A, InitialDictionary.b,
                            InitialDictionary.c,
                            can_improve(InitialDictionary.c), l)

\* all constants >= 0 with one equal to 0: phase 2 has done its first pivot
C13_Witness ==
    /\ ~InputNegative
    /\ \E k \in 1 .. inp.nc : inp.b[k] = Zero
    /\ pc = "loop"
    /\ PivotsOfPhase2 = 1
    /\ ~revisited

(***************************************************************************)
(* C14: the row l that phase 1 chooses for pivot(a0, l) has the least      *)
(* (most negative) constant and no row enumerated before it has the same   *)
(* constant; right after pivot(a0, l) every row is feasible: b(a0) > 0,    *)
(* equal to -b(l) of the input, and b(i) >= 0 for every other basic i.     *)
(***************************************************************************)
InputB(i) == inp.b[i - inp.nv + 1]

C14_FirstPivotFeasible ==
    /\ pc = "ffs_pivot1" =>
           /\ l \in B
           /\ RLt(b[l], Zero)
           /\ \A i \in B : RLe(b[l], b[i])
           /\ \A i \in B : b[i] = b[l] => RowPosition(l) <= RowPosition(i)
    /\ pc = "ffs_scan" =>
           /\ new_var \in B
           /\ l \notin B
           /\ RLt(Zero, b[new_var])
           /\ b[new_var] = RNeg(InputB(l))
           /\ \A i \in B \ {new_var} :
                 /\ RLe(Zero, b[i])
                 /\ b[i] = RAdd(InputB(i), RNeg(InputB(l)))

\* pivot(a0, l) done on an input where two rows have the most negative constant
C14_Witness ==
    /\ pc = "ffs_scan"
    /\ \E i \in B \ {new_var} : b[i] = Zero /\ l < i

(***************************************************************************)
(* C15: when first_feasible_solution returns, having done pivot(a0, l),    *)
(* pivot(j, a0) and the removal of a0, then in exact arithmetic (no        *)
(* operation of these two pivots and of pivot(j, l) rounds) the dictionary *)
(* (A, b, c and v as mappings, hence B and N) is the one pivot(j, l) gives *)
(* on the dictionary parse_input built, with the objective of the input;   *)
(* a(l,j) # 0 there.                                                       *)
(***************************************************************************)
SinglePivot(jj, ll) ==
    LET d == pivot(InitialDictionary.A, InitialDictionary.b,
                   InitialDictionary.c, jj, ll)
    IN  AsMapping(d.A, d.b, d.c)

SinglePivotExact(jj, ll) ==
    PivotExact(InitialDictionary.A, InitialDictionary.b, InitialDictionary.c,
               jj, ll)

C15_Phase1IsOnePivot ==
    pc = "ffs_done" =>
        /\ l \in DOMAIN InitialDictionary.b
        /\ e \in DSet(InitialDictionary.c) \ {NoIndex}
        /\ InitialDictionary.A.val[l].val[e] # Zero
        /\ (~rounded /\ SinglePivotExact(e, l)) =>
               AsMapping(A, b, c) = SinglePivot(e, l)

\* phase 1 returned with an objective row and a v that its pivots changed,
\* no operation having rounded
C15_Witness ==
    /\ pc = "ffs_done"
    /\ ~rounded
    /\ SinglePivotExact(e, l)
    /\ v # Zero
    /\ \E j \in N : /\ j \in DSet(InitialDictionary.c)
                    /\ c.val[j] # InitialDictionary.c.val[j]

(***************************************************************************)
(* C16 (as claimed): every dictionary without the artificial variable (the *)
(* initial one, the one phase 1 returns, the one after every phase-2       *)
(* pivot) represents the constraints of the input: its basic solution      *)
(* (nonbasic 0, basic i = b(i)) satisfies                                  *)
(* x(numVar+k) = b_in[k] - sum_j A_in[k][j] * x(j) for every constraint k, *)
(* feasible or not; so does the point reached from it by raising one       *)
(* nonbasic variable to 1.                                                 *)
(***************************************************************************)
ArtificialFree ==
    \/ pc \in {"start", "ffs_done", "loop"}
    \/ outcome \in {"Optimal", "Unbounded"}

\* the solution of the dictionary with nonbasic j at 1 and the others at 0
\* (j = NoIndex: the basic solution)
PointOf(j) ==
    [i \in 0 .. (inp.nv + inp.nc - 1) |->
        IF i \in B
        THEN IF j = NoIndex THEN b[i] ELSE XAdd(b[i], A.val[i].val[j])
        ELSE IF i = j THEN One ELSE Zero]

SatisfiesInput(xs) ==
    \A k \in 1 .. inp.nc :
        xs[inp.nv + k - 1] = XAdd(inp.b[k], XNeg(Dot(inp.A[k], xs, inp.nv)))

C16_RepresentsInput ==
    ArtificialFree =>
        /\ B \cup N = 0 .. (inp.nv + inp.nc - 1)
        /\ SatisfiesInput(PointOf(NoIndex))
        /\ \A j \in N : SatisfiesInput(PointOf(j))

(***************************************************************************)
(* C16 (amended): every dictionary without the artificial variable has the *)
(* original index set as B and N, and as long as no operation of a pivot   *)
(* has rounded it represents the constraints of the input: its basic       *)
(* solution satisfies x(numVar+k) = b_in[k] - sum_j A_in[k][j] * x(j) for  *)
(* every constraint k, feasible or not; so does the point reached from it  *)
(* by raising one nonbasic variable to 1.                                  *)
(***************************************************************************)
C16_RepresentsInputUnrounded ==
    ArtificialFree =>
        /\ B \cup N = 0 .. (inp.nv + inp.nc - 1)
        /\ ~rounded =>
               /\ SatisfiesInput(PointOf(NoIndex))
               /\ \A j \in N : SatisfiesInput(PointOf(j))

\* phase 1 returned an infeasible dictionary and phase 2 has pivoted on it,
\* no operation having rounded
C16_Witness ==
    /\ pc = "loop"
    /\ p1pivots = 2
    /\ PivotsOfPhase2 >= 1
    /\ ~Feasible
    /\ ~rounded

(***************************************************************************)
(* C17 (as claimed): when phase 2 starts from a feasible dictionary, v     *)
(* never decreases across its pivots and strictly increases on every pivot *)
(* whose leaving row has b(l) > 0.                                         *)
(***************************************************************************)
Phase2PivotStep == pc = "loop" /\ pc' = "loop"

C17_ObjectiveMonotone ==
    [][(Phase2PivotStep /\ startedFeasible) =>
           /\ RLe(v, v')
           /\ RLt(Zero, b[l']) => RLt(v, v')]_vars

(***************************************************************************)
(* C17 (amended): phase 2 starts from a feasible dictionary whenever phase *)
(* 1 was skipped.  When it starts from a feasible dictionary, then as long *)
(* as no operation of a pivot has rounded, the dictionary stays feasible,  *)
(* v does not decrease across a phase-2 pivot, increases when b(l) > 0 and *)
(* is unchanged when b(l) = 0.  With or without rounding, a phase-2 pivot  *)
(* applied to a feasible dictionary does not decrease v.                   *)
(***************************************************************************)
C17_ObjectiveMonotoneUnrounded ==
    [][/\ (pc' = "loop" /\ p1pivots' = 0) => startedFeasible'
       /\ (Phase2PivotStep /\ Feasible) => RLe(v, v')
       /\ (Phase2PivotStep /\ startedFeasible /\ ~rounded') =>
              /\ Feasible
              /\ Feasible'
              /\ RLe(v, v')
              /\ RLt(Zero, b[l']) => RLt(v, v')
              /\ b[l'] = Zero => v' = v]_vars

\* phase 1 skipped; phase 2 has made a pivot with b(l) = 0 and one that
\* increased v, no operation having rounded
C17_Witness ==
    /\ pc = "loop"
    /\ p1pivots = 0
    /\ startedFeasible
    /\ ~rounded
    /\ degenerate
    /\ RLt(Zero, v)

=============================================================================
